---- MODULE Spec2Model ----
(***************************************************************************)
(* Model of nuki-backend-gles (src/src/lib.rs): RenderState, DrawOptions   *)
(* and Drawer.  Drawer::draw is modelled statement block by statement      *)
(* block (pc), the GL context as the record gl, f32 arithmetic as IEEE-754 *)
(* binary32 with round-to-nearest-even on every operation.                 *)
(***************************************************************************)
EXTENDS Integers, Sequences, FiniteSets, TLC

----------------------------------------------------------------------------
(* f32: value = s * m * 2^e, m = 0 or 2^23 <= m < 2^24 (normal numbers; the *)
(* values of the model stay far from the subnormal and overflow ranges).    *)

P2(n) == 2 ^ n

F32Zero == [s |-> 1, m |-> 0, e |-> 0]

RECURSIVE BitLen(_)
BitLen(n) == IF n = 0 THEN 0 ELSE 1 + BitLen(n \div 2)

\* Round the integer M * 2^e (M >= 0, a sticky bit may sit in M's lowest
\* bit) to 24 significant bits, ties to even.
F32Round(s, M, e) ==
    IF M = 0 THEN F32Zero
    ELSE LET n == BitLen(M) - 24 IN
         IF n <= 0 THEN [s |-> s, m |-> M * P2(-n), e |-> e + n]
         ELSE LET q    == M \div P2(n)
                  r    == M % P2(n)
                  half == P2(n - 1)
                  up   == r > half \/ (r = half /\ q % 2 = 1)
                  q2   == IF up THEN q + 1 ELSE q
              IN IF q2 = P2(24) THEN [s |-> s, m |-> P2(23), e |-> e + n + 1]
                 ELSE [s |-> s, m |-> q2, e |-> e + n]

\* `n as f32` for an integer n with |n| < 2^24 (exact).
F32FromInt(n) == F32Round(IF n < 0 THEN -1 ELSE 1, IF n < 0 THEN -n ELSE n, 0)

\* k / 2^d as f32, for literals such as 0.5 and 1.5.
F32Frac(k, d) ==
    LET f == F32FromInt(k) IN IF f.m = 0 THEN f ELSE [f EXCEPT !.e = @ - d]

F32Neg(a) == IF a.m = 0 THEN a ELSE [a EXCEPT !.s = -(a.s)]

F32Mul(a, b) ==
    IF a.m = 0 \/ b.m = 0 THEN F32Zero
    ELSE LET h1  == a.m \div 4096
             l1  == a.m % 4096
             h2  == b.m \div 4096
             l2  == b.m % 4096
             mid == h1 * l2 + l1 * h2
             low == l1 * l2 + (mid % 4096) * 4096
             lo  == low % P2(24)
             hi  == h1 * h2 + mid \div 4096 + low \div P2(24)
             st  == IF lo % P2(21) # 0 THEN 1 ELSE 0
             M   == (hi * 8 + lo \div P2(21)) * 2 + st
         IN F32Round(a.s * b.s, M, a.e + b.e + 20)

RECURSIVE DivBits(_, _, _, _)
\* k more quotient bits of r / d (r < d): <<quotient, remainder>>
DivBits(q, r, d, k) ==
    IF k = 0 THEN <<q, r>>
    ELSE IF 2 * r >= d THEN DivBits(2 * q + 1, 2 * r - d, d, k - 1)
         ELSE DivBits(2 * q, 2 * r, d, k - 1)

\* a / b, b # 0
F32Div(a, b) ==
    IF a.m = 0 THEN F32Zero
    ELSE LET qr == DivBits(a.m \div b.m, a.m % b.m, b.m, 25)
             st == IF qr[2] # 0 THEN 1 ELSE 0
         IN F32Round(a.s * b.s, qr[1] * 2 + st, a.e - b.e - 26)

F32Add(a, b) ==
    IF a.m = 0 THEN b
    ELSE IF b.m = 0 THEN a
    ELSE LET x  == IF a.e >= b.e THEN a ELSE b
             y  == IF a.e >= b.e THEN b ELSE a
             d  == x.e - y.e
             A  == x.m * 8
             B  == IF d >= 27 THEN 1
                   ELSE LET full == y.m * 8
                        IN (full \div P2(d)) +
                           (IF full % P2(d) # 0 /\ (full \div P2(d)) % 2 = 0
                            THEN 1 ELSE 0)
             R  == x.s * A + y.s * B
         IN F32Round(IF R < 0 THEN -1 ELSE 1, IF R < 0 THEN -R ELSE R, x.e - 3)

F32Sub(a, b) == F32Add(a, F32Neg(b))

\* `f as GLint`: truncation toward zero, saturating at the i32 range.
F32AsGLint(f) ==
    IF f.m = 0 THEN 0
    ELSE IF f.e > 7 THEN (IF f.s = 1 THEN 2147483647 ELSE -2147483647 - 1)
    ELSE IF f.e >= 0 THEN f.s * f.m * P2(f.e)
    ELSE IF f.e < -24 THEN 0
    ELSE f.s * (f.m \div P2(-(f.e)))

----------------------------------------------------------------------------
(* Bounds of the model and the inputs the host and the UI library supply.  *)

MaxCmds == 2        \* commands one conversion emits at most
IdBits == 4         \* width of GLuint / i32 in the model (32 in the build)

VertexSize == 20    \* size_of::<Vertex>(): 2 x f32 + 2 x f32 + 4 x u8
IndexSize == 2      \* size_of::<u16>()

IdRange == P2(IdBits)

\* GLuint -> i32 (`tex as i32`) and i32 -> GLuint (`id as GLuint`)
AsI32(u) == IF u >= IdRange \div 2 THEN u - IdRange ELSE u
AsGLuint(i) == i % IdRange

\* texture names gl::gen_textures may return (never 0, never one in use)
LowName == 3
HighName == IdRange - 2
TexNames == {LowName, HighName}

FOne == F32FromInt(1)
FTwo == F32FromInt(2)
FHalf == F32Frac(1, 1)
FOneAndHalf == F32Frac(3, 1)

DisplaySizes == {<<800, 600>>, <<512, 256>>}
DpiFactors == {<<FOne, FOne>>, <<FTwo, FOneAndHalf>>}
ScaleFactors == {<<FOne, FOne>>, <<FHalf, FTwo>>}

\* Drawer::new(alloc, max_vertex_buffer, max_element_buffer): sizes in bytes
BufferSizes == {<<9 * VertexSize, 9 * IndexSize>>, <<4096, 1024>>}

Rect(x, y, w, h) == [x |-> x, y |-> y, w |-> w, h |-> h]

\* the rectangle the UI library uses for "no clipping"
NullRect == Rect(F32FromInt(-8192), F32FromInt(-8192),
                 F32FromInt(16384), F32FromInt(16384))

WholeRect == Rect(F32FromInt(10), F32FromInt(20), F32FromInt(100), F32FromInt(50))
FracRect == Rect(F32Frac(21, 1), F32Frac(1, 2), F32Frac(61, 1), F32FromInt(40))

ClipRects == {NullRect, WholeRect, FracRect}

ElemCounts == {0, 3, 6}

----------------------------------------------------------------------------
(* DrawOptions                                                              *)

DrawOptionsNew(width, height) ==
    [display_size |-> <<width, height>>,
     dpi_factor   |-> <<FOne, FOne>>,
     scale_factor |-> <<FOne, FOne>>,
     viewport     |-> <<0, 0, width, height>>]

with_dpi_factor(o, x, y) == [o EXCEPT !.dpi_factor = <<x, y>>]

with_scale_factor(o, x, y) == [o EXCEPT !.scale_factor = <<x, y>>]

OptionsOf(Sizes, Dpis, Scales) ==
    {with_scale_factor(with_dpi_factor(DrawOptionsNew(d[1], d[2]), p[1], p[2]),
                       s[1], s[2]) :
        d \in Sizes, p \in Dpis, s \in Scales}

OptionSet == OptionsOf(DisplaySizes, DpiFactors, ScaleFactors)

----------------------------------------------------------------------------
(* nuki::Buffer as the backend uses it: total() is the capacity, info().1   *)
(* the allocated length, data the content of the allocated prefix.          *)

BufferWithSize(size) == [total |-> size, allocated |-> 0, data |-> << >>]

\* mutant: the reset releases the memory as well
BufferClear_Free(b) == [b EXCEPT !.allocated = 0, !.data = << >>, !.total = 0]

BufferClear(b) == [b EXCEPT !.allocated = 0, !.data = << >>]

BufferFill(b, len, content) == [b EXCEPT !.allocated = len, !.data = content]

----------------------------------------------------------------------------
(* Drawer::clip_rect and Drawer::ortho                                      *)

\* the arguments clip_rect passes to gl::scissor
clip_rect(rect, o) ==
    LET fx == F32Mul(o.dpi_factor[1], o.scale_factor[1])
        fy == F32Mul(o.dpi_factor[2], o.scale_factor[2])
        x  == F32AsGLint(F32Mul(rect.x, fx))
        y  == F32AsGLint(F32Mul(F32Sub(F32FromInt(o.display_size[2]),
                                       F32Add(rect.y, rect.h)), fy))
        w  == F32AsGLint(F32Mul(rect.w, fx))
        h  == F32AsGLint(F32Mul(rect.h, fy))
    IN <<x, y, w, h>>

\* mutant: the y axis is not flipped
ortho_NoFlip(o) ==
    LET fx == F32Mul(o.dpi_factor[1], o.scale_factor[1])
        fy == F32Mul(o.dpi_factor[2], o.scale_factor[2])
        z  == F32Zero
    IN << F32Mul(F32Div(FTwo, F32FromInt(o.display_size[1])), fx), z, z, z,
          z, F32Mul(F32Div(FTwo, F32FromInt(o.display_size[2])), fy), z, z,
          z, z, F32Neg(FOne), z,
          F32Neg(FOne), F32Neg(FOne), z, FOne >>

\* column-major 4x4 matrix, indices 1..16
ortho(o) ==
    LET fx == F32Mul(o.dpi_factor[1], o.scale_factor[1])
        fy == F32Mul(o.dpi_factor[2], o.scale_factor[2])
        z  == F32Zero
    IN << F32Mul(F32Div(FTwo, F32FromInt(o.display_size[1])), fx), z, z, z,
          z, F32Mul(F32Div(F32Neg(FTwo), F32FromInt(o.display_size[2])), fy), z, z,
          z, z, F32Neg(FOne), z,
          F32Neg(FOne), FOne, z, FOne >>

----------------------------------------------------------------------------
(* The GL context, as far as the backend touches it.                        *)

Undefined == <<"undefined">>

GlBufferData(store, size) == [size |-> size, data |-> Undefined]

\* glBufferSubData at offset 0: GL_INVALID_VALUE (no effect) past the store
GlBufferSubData(store, len, content) ==
    IF len > store.size THEN store ELSE [store EXCEPT !.data = content]

\* glScissor: GL_INVALID_VALUE (no effect) for a negative width or height
GlScissor(g, box) ==
    IF box[3] < 0 \/ box[4] < 0 THEN g ELSE [g EXCEPT !.scissor = box]

GlInit ==
    [blend |-> FALSE, cull |-> FALSE, depth |-> FALSE, scissor_test |-> FALSE,
     scissor |-> <<0, 0, 0, 0>>, tex2d |-> 0,
     proj |-> [k \in 1..16 |-> F32Zero],
     vbo |-> [size |-> 0, data |-> Undefined],
     ebo |-> [size |-> 0, data |-> Undefined]]

----------------------------------------------------------------------------
VARIABLES
    pc,         \* where Drawer::draw stands: "idle" between two calls
    gl,         \* the GL context
    cmds, vbuf, ebuf,   \* Drawer's staging buffers
    null,       \* Drawer.null: the texture handle of the null texture
    font_texs,  \* RenderState.font_texs
    handles,    \* handles[k]: what add_font_texture returned for font_texs[k]
    options,    \* the DrawOptions of the running draw
    eptr,       \* the index cursor of the draw loop, in bytes
    idx,        \* position of the draw loop in the command list
    calls,      \* the GL calls of the running (or last) draw, in order
    pre         \* staging capacities when the running draw was entered

vars == <<pc, gl, cmds, vbuf, ebuf, null, font_texs, handles, options, eptr,
          idx, calls, pre>>

\* Drawer::new; RenderState::new only generates the two buffer names
Init ==
    /\ pc = "idle"
    /\ gl = GlInit
    /\ \E sz \in BufferSizes :
          /\ vbuf = BufferWithSize(sz[1])
          /\ ebuf = BufferWithSize(sz[2])
    /\ cmds = BufferWithSize(MaxCmds + 1)
    /\ null = 0
    /\ font_texs = << >>
    /\ handles = << >>
    /\ options = DrawOptionsNew(800, 600)
    /\ eptr = 0
    /\ idx = 0
    /\ calls = << >>
    /\ pre = [vtotal |-> vbuf.total, etotal |-> ebuf.total, ctotal |-> cmds.total]

Used == {font_texs[k] : k \in 1..Len(font_texs)}

Idle == pc \in {"idle", "returned"}

\* mutant: the handle is the position in font_texs, not the texture name
add_font_texture_Index(tex) == <<tex, Len(font_texs) + 1>>

\* RenderState::add_font_texture: the new texture and the handle returned
add_font_texture(tex) == <<tex, AsI32(tex)>>

AddFontTexture(Names) ==
    /\ Idle
    /\ \E tex \in Names \ Used :
          LET r == add_font_texture(tex) IN
          /\ font_texs' = Append(font_texs, r[1])
          /\ handles' = Append(handles, r[2])
          /\ gl' = [gl EXCEPT !.tex2d = 0]
          /\ null' = null
    /\ pc' = "idle"
    /\ UNCHANGED <<cmds, vbuf, ebuf, options, eptr, idx, calls, pre>>

\* Drawer::bake_font_atlas: atlas.end stores the handle in Drawer.null
BakeFontAtlas(Names) ==
    /\ Idle
    /\ \E tex \in Names \ Used :
          LET r == add_font_texture(tex) IN
          /\ font_texs' = Append(font_texs, r[1])
          /\ handles' = Append(handles, r[2])
          /\ gl' = [gl EXCEPT !.tex2d = 0]
          /\ null' = r[2]
    /\ pc' = "idle"
    /\ UNCHANGED <<cmds, vbuf, ebuf, options, eptr, idx, calls, pre>>

\* other code of the host, between two frames, enabling or disabling the
\* four capabilities of the same GL context
HostGL ==
    /\ Idle
    /\ \E v \in BOOLEAN :
          gl' = [gl EXCEPT !.blend = v, !.cull = v, !.depth = v,
                           !.scissor_test = v]
    /\ pc' = "idle"
    /\ UNCHANGED <<cmds, vbuf, ebuf, null, font_texs, handles, options,
                   eptr, idx, calls, pre>>

----------------------------------------------------------------------------
(* Drawer::draw                                                             *)

\* mutant: the scissor test is not enabled
RasterSetup_NoScissor(g) ==
    [g EXCEPT !.blend = TRUE, !.cull = FALSE, !.depth = FALSE]

\* the raster state draw sets on entry
RasterSetup(g) ==
    [g EXCEPT !.blend = TRUE, !.cull = FALSE, !.depth = FALSE,
              !.scissor_test = TRUE]

\* mutant: the scissor test is left enabled
RasterRestore_KeepsScissor(g) ==
    [g EXCEPT !.blend = FALSE, !.cull = TRUE, !.depth = TRUE]

\* the raster state draw leaves on return
RasterRestore(g) ==
    [g EXCEPT !.blend = FALSE, !.cull = TRUE, !.depth = TRUE,
              !.scissor_test = FALSE]

\* mutant: the store is sized by the content left from the last frame
StoreSize_Allocated(b) == b.allocated

\* the size draw gives a GPU buffer object: the staging buffer's capacity
StoreSize(b) == b.total

\* the length draw uploads: the staging buffer's allocated length
UploadLen(b) == b.allocated

\* mutant: the test lets a command without elements through
SkipCmd_Negative(cmd) == cmd.elem_count < 0

\* `if cmd.elem_count() < 1 { continue; }`
SkipCmd(cmd) == cmd.elem_count < 1

\* `cmd.texture().id().unwrap()`, then `id as GLuint`
BoundTexture(cmd) == AsGLuint(cmd.texture)

\* mutant: the cursor advances by count bytes, not count indices
NextEptr_Bytes(e, count) == e + count

\* `eptr.add(count)` on a *mut u16, as the byte offset given to GL
NextEptr(e, count) == e + count * IndexSize

\* the texture references a conversion can emit: the null texture's and
\* those of the font textures
TexRefs == {null} \cup {handles[k] : k \in 1..Len(handles)}

RECURSIVE SumCounts(_)
SumCounts(L) == IF L = << >> THEN 0 ELSE Head(L).elem_count + SumCounts(Tail(L))

SeqsUpTo(S, n) == UNION {[1..k -> S] : k \in 0..n}

\* the draw commands of a conversion
Commands(Counts, Rects) ==
    [elem_count : Counts, clip_rect : Rects, texture : TexRefs]

\* what Context::convert may leave in the command buffer: it never writes
\* past the capacity of the vertex and element buffers
CmdLists(Cmds, n) ==
    {L \in SeqsUpTo(Cmds, n) :
        /\ Len(L) <= cmds.total
        /\ SumCounts(L) * VertexSize <= vbuf.total
        /\ SumCounts(L) * IndexSize <= ebuf.total}

\* lines 213-274: raster state, program and projection, buffer bindings,
\* attribute pointers, storage of the two buffer objects
DrawBegin(Opts) ==
    /\ Idle
    /\ \E o \in Opts :
          /\ options' = o
          /\ gl' = [RasterSetup(gl) EXCEPT
                       !.proj = ortho(o),
                       !.vbo = GlBufferData(@, StoreSize(vbuf)),
                       !.ebo = GlBufferData(@, StoreSize(ebuf))]
    /\ calls' = << [fn |-> "buffer_data", target |-> "ARRAY_BUFFER",
                    size |-> StoreSize(vbuf)],
                   [fn |-> "buffer_data", target |-> "ELEMENT_ARRAY_BUFFER",
                    size |-> StoreSize(ebuf)] >>
    /\ pre' = [vtotal |-> vbuf.total, etotal |-> ebuf.total,
               ctotal |-> cmds.total]
    /\ pc' = "reset"
    /\ UNCHANGED <<cmds, vbuf, ebuf, null, font_texs, handles, eptr, idx>>

\* lines 276-279
DrawReset ==
    /\ pc = "reset"
    /\ cmds' = BufferClear(cmds)
    /\ vbuf' = BufferClear(vbuf)
    /\ ebuf' = BufferClear(ebuf)
    /\ pc' = "convert"
    /\ UNCHANGED <<gl, null, font_texs, handles, options, eptr, idx, calls, pre>>

\* line 281: the UI library fills the three staging buffers
DrawConvert(Cmds, n) ==
    /\ pc = "convert"
    /\ \E L \in CmdLists(Cmds, n) :
          /\ cmds' = BufferFill(cmds, Len(L), L)
          /\ vbuf' = BufferFill(vbuf, SumCounts(L) * VertexSize, <<"vertices", L>>)
          /\ ebuf' = BufferFill(ebuf, SumCounts(L) * IndexSize, <<"indices", L>>)
    /\ pc' = "upload"
    /\ UNCHANGED <<gl, null, font_texs, handles, options, eptr, idx, calls, pre>>

\* lines 283-295
DrawUpload ==
    /\ pc = "upload"
    /\ gl' = [gl EXCEPT
                 !.vbo = GlBufferSubData(@, UploadLen(vbuf), vbuf.data),
                 !.ebo = GlBufferSubData(@, UploadLen(ebuf), ebuf.data)]
    /\ calls' = calls \o
                << [fn |-> "buffer_sub_data", target |-> "ARRAY_BUFFER",
                    offset |-> 0, len |-> UploadLen(vbuf)],
                   [fn |-> "buffer_sub_data", target |-> "ELEMENT_ARRAY_BUFFER",
                    offset |-> 0, len |-> UploadLen(ebuf)] >>
    /\ eptr' = 0
    /\ idx' = 1
    /\ pc' = "loop"
    /\ UNCHANGED <<cmds, vbuf, ebuf, null, font_texs, handles, options, pre>>

\* lines 296-312: one iteration of the loop over the command list
DrawCmd ==
    /\ pc = "loop"
    /\ idx <= Len(cmds.data)
    /\ LET cmd == cmds.data[idx]
           box == clip_rect(cmd.clip_rect, options)
           g   == [GlScissor(gl, box) EXCEPT !.tex2d = BoundTexture(cmd)]
       IN IF SkipCmd(cmd)
          THEN UNCHANGED <<gl, calls, eptr>>
          ELSE /\ gl' = g
               /\ calls' = calls \o
                     << [fn |-> "scissor", box |-> box, cmd |-> idx],
                        [fn |-> "bind_texture", tex |-> BoundTexture(cmd),
                         cmd |-> idx],
                        [fn |-> "draw_elements", mode |-> "TRIANGLES",
                         count |-> cmd.elem_count, type |-> "UNSIGNED_SHORT",
                         offset |-> eptr, cmd |-> idx, gl |-> g] >>
               /\ eptr' = NextEptr(eptr, cmd.elem_count)
    /\ idx' = idx + 1
    /\ UNCHANGED <<pc, cmds, vbuf, ebuf, null, font_texs, handles, options, pre>>

\* lines 314-318; the locals eptr and the loop position end with the call
DrawEnd ==
    /\ pc = "loop"
    /\ idx > Len(cmds.data)
    /\ gl' = RasterRestore(gl)
    /\ eptr' = 0
    /\ idx' = 0
    /\ pc' = "returned"
    /\ UNCHANGED <<cmds, vbuf, ebuf, null, font_texs, handles, options,
                   calls, pre>>

----------------------------------------------------------------------------
(* Specifications.  Spec runs whole frames of up to MaxCmds commands with   *)
(* one font texture and one DrawOptions value; SpecGeom runs one-command    *)
(* frames over every display size, factor and clip rectangle; SpecTex runs  *)
(* one-command frames over every texture name.  Context::convert keeps its  *)
(* output within the capacity of the staging buffers in all three.          *)

Next ==
    \/ AddFontTexture({HighName})
    \/ BakeFontAtlas({HighName})
    \/ HostGL
    \/ DrawBegin(OptionsOf({<<800, 600>>}, {<<FTwo, FOneAndHalf>>}, {<<FOne, FOne>>}))
    \/ DrawReset
    \/ DrawConvert(Commands(ElemCounts, {NullRect, FracRect}), MaxCmds)
    \/ DrawUpload
    \/ DrawCmd
    \/ DrawEnd

Spec == Init /\ [][Next]_vars

NextGeom ==
    \/ DrawBegin(OptionSet)
    \/ DrawReset
    \/ DrawConvert(Commands({0, 6}, ClipRects), 1)
    \/ DrawUpload
    \/ DrawCmd
    \/ DrawEnd

SpecGeom == Init /\ [][NextGeom]_vars

NextTex ==
    \/ AddFontTexture(TexNames)
    \/ BakeFontAtlas(TexNames)
    \/ HostGL
    \/ DrawBegin({DrawOptionsNew(800, 600)})
    \/ DrawReset
    \/ DrawConvert(Commands({0, 6}, {NullRect}), 1)
    \/ DrawUpload
    \/ DrawCmd
    \/ DrawEnd

SpecTex == Init /\ [][NextTex]_vars

----------------------------------------------------------------------------
(* Observations used by the properties.                                     *)

IsDraw(c) == c.fn = "draw_elements"
IsScissor(c) == c.fn = "scissor"
IsBind(c) == c.fn = "bind_texture"
IsBufferData(c) == c.fn = "buffer_data"
IsBufferSubData(c) == c.fn = "buffer_sub_data"

DrawCalls == SelectSeq(calls, IsDraw)
\* the calls the loop over the command list made
LoopCalls == SelectSeq(calls, LAMBDA c : IsDraw(c) \/ IsScissor(c) \/ IsBind(c))

\* the commands the loop has gone through
Processed ==
    IF pc = "loop" THEN idx - 1
    ELSE IF pc \in {"idle", "returned"} /\ calls # << >> THEN Len(cmds.data)
    ELSE 0

\* the positions, among the first n commands of L, of those with a positive
\* element count
RECURSIVE Positive(_, _)
Positive(L, n) ==
    IF n = 0 THEN << >>
    ELSE IF L[n].elem_count >= 1 THEN Append(Positive(L, n - 1), n)
         ELSE Positive(L, n - 1)

\* the element counts of the commands of L before position k
RECURSIVE CountsBefore(_, _)
CountsBefore(L, k) ==
    IF k <= 1 THEN 0 ELSE L[k - 1].elem_count + CountsBefore(L, k - 1)

Baseline(g) == ~g.blend /\ g.cull /\ g.depth /\ ~g.scissor_test

\* gl_Position.xy of the vertex shader for the position (x, y): ProjMtx * (x, y, 0, 1)
Transform(m, x, y) ==
    << F32Add(F32Add(F32Mul(m[1], x), F32Mul(m[5], y)), m[13]),
       F32Add(F32Add(F32Mul(m[2], x), F32Mul(m[6], y)), m[14]) >>

F32Less(a, b) == LET d == F32Sub(a, b) IN d.m # 0 /\ d.s = -1
F32Abs(a) == [a EXCEPT !.s = 1]

\* GL's viewport transform of a clip coordinate, for a viewport at 0 of the
\* given extent
Window(c, extent) ==
    F32Mul(F32Div(F32Add(c, FOne), FTwo), F32FromInt(extent))

\* the window rectangle (x, y from the bottom, w, h) the projection m maps
\* the logical rectangle r to, the viewport being the display size
Projected(m, r, o) ==
    LET tl == Transform(m, r.x, r.y)
        br == Transform(m, F32Add(r.x, r.w), F32Add(r.y, r.h))
        l  == Window(tl[1], o.display_size[1])
        rt == Window(br[1], o.display_size[1])
        t  == Window(tl[2], o.display_size[2])
        b  == Window(br[2], o.display_size[2])
    IN <<l, b, F32Sub(rt, l), F32Sub(t, b)>>

\* an integer within one pixel of a window coordinate
Near(n, f) == F32Less(F32Abs(F32Sub(F32FromInt(n), f)), FOne)

----------------------------------------------------------------------------
(* C1: the draw calls of a frame are exactly the commands with element      *)
(* count >= 1, in the converter's order, one indexed triangle draw call per *)
(* such command with that command's element count; a command with element   *)
(* count 0 causes no draw call and no scissor or texture call.              *)
C1_DrawCallsAreThePositiveCommands ==
    LET L == cmds.data
        D == Positive(L, Processed)
    IN /\ Len(LoopCalls) = 3 * Len(D)
       /\ Len(DrawCalls) = Len(D)
       /\ \A j \in 1..Len(D) :
             /\ j <= Len(DrawCalls)
             /\ 3 * j <= Len(LoopCalls)
             /\ IsScissor(LoopCalls[3 * j - 2]) /\ LoopCalls[3 * j - 2].cmd = D[j]
             /\ IsBind(LoopCalls[3 * j - 1]) /\ LoopCalls[3 * j - 1].cmd = D[j]
             /\ LoopCalls[3 * j] = DrawCalls[j]
             /\ DrawCalls[j].cmd = D[j]
             /\ DrawCalls[j].mode = "TRIANGLES"
             /\ DrawCalls[j].type = "UNSIGNED_SHORT"
             /\ DrawCalls[j].count = L[D[j]].elem_count

\* a finished frame of a zero-count command followed by a 6-element command
C1_Witness ==
    /\ pc = "returned"
    /\ Len(cmds.data) = 2
    /\ cmds.data[1].elem_count = 0
    /\ cmds.data[2].elem_count = 6
    /\ Len(DrawCalls) = 1

(* C2: the index offset of the draw call of command k, in 16-bit elements,  *)
(* is the sum of the element counts of the commands before k; the cursor    *)
(* starts at 0 in every frame; the index ranges of two draw calls of a      *)
(* frame do not overlap.                                                    *)
C2_IndexCursor ==
    /\ pc = "loop" => eptr = IndexSize * CountsBefore(cmds.data, idx)
    /\ \A j \in 1..Len(DrawCalls) :
          /\ DrawCalls[j].offset % IndexSize = 0
          /\ DrawCalls[j].offset \div IndexSize =
                CountsBefore(cmds.data, DrawCalls[j].cmd)
    /\ \A i, j \in 1..Len(DrawCalls) :
          i < j => DrawCalls[i].offset + IndexSize * DrawCalls[i].count
                      <= DrawCalls[j].offset

\* two draw calls of 3 and 6 elements: the second reads from element 3
C2_Witness ==
    /\ Len(DrawCalls) = 2
    /\ DrawCalls[1].count = 3 /\ DrawCalls[1].offset = 0
    /\ DrawCalls[2].count = 6 /\ DrawCalls[2].offset = 3 * IndexSize

(* C3: for the "no clip" rectangle clip_rect sets the scissor to            *)
(* (0, 0, displayWidth, displayHeight), whatever the factors.               *)
C3_NoClipIsFullViewport ==
    \A j \in 1..Len(calls) :
        IsScissor(calls[j]) /\ cmds.data[calls[j].cmd].clip_rect = NullRect
           => calls[j].box = <<0, 0, options.display_size[1],
                               options.display_size[2]>>

C5_BaselineOnReturn == pc = "returned" => Baseline(gl)

\* draw returned from a frame with an empty command list
C5_Witness == pc = "returned" /\ cmds.data = << >>

(* C6 as stated: the handle's integer value equals the texture identifier.  *)
C6_HandleEqualsId ==
    \A k \in 1..Len(handles) : handles[k] = font_texs[k]

(* C6 amended: the handle's value is the texture identifier read as a       *)
(* signed integer of the same width (the identifier itself below half the   *)
(* range, the identifier minus the range from there on), and a draw command *)
(* carrying the handle binds that texture identifier.                       *)
C6_HandleRoundTrip ==
    /\ Len(handles) = Len(font_texs)
    /\ \A k \in 1..Len(handles) :
          /\ font_texs[k] < IdRange \div 2 => handles[k] = font_texs[k]
          /\ font_texs[k] >= IdRange \div 2 => handles[k] = font_texs[k] - IdRange
          /\ \A j \in 1..Len(DrawCalls) :
                cmds.data[DrawCalls[j].cmd].texture = handles[k]
                   => DrawCalls[j].gl.tex2d = font_texs[k]

\* a draw call bound the texture with the high identifier through its handle
C6_Witness ==
    \E k \in 1..Len(handles), j \in 1..Len(DrawCalls) :
        /\ font_texs[k] = HighName
        /\ cmds.data[DrawCalls[j].cmd].texture = handles[k]
        /\ \E i \in 1..Len(handles) : font_texs[i] = LowName

(* C7: for display size (800,600) and factors 1 the matrix of ortho maps    *)
(* (0,0) to (-1,1) and (800,600) to (1,-1).                                 *)
C7_OrthoCorners ==
    calls # << >> /\ options = DrawOptionsNew(800, 600) =>
        /\ Transform(gl.proj, F32Zero, F32Zero) = <<F32Neg(FOne), FOne>>
        /\ Transform(gl.proj, F32FromInt(800), F32FromInt(600))
              = <<FOne, F32Neg(FOne)>>

\* a draw with those options has uploaded its projection
C7_Witness ==
    pc = "reset" /\ options = DrawOptionsNew(800, 600) /\ gl.proj = ortho(options)

(* C8: the three staging buffers are empty when the converter is invoked,   *)
(* the reset leaves their capacity as it was, and a second reset changes    *)
(* nothing.                                                                 *)
C8_ResetBeforeConvert ==
    pc = "convert" =>
        /\ cmds.allocated = 0 /\ cmds.data = << >>
        /\ vbuf.allocated = 0 /\ vbuf.data = << >>
        /\ ebuf.allocated = 0 /\ ebuf.data = << >>
        /\ cmds.total = pre.ctotal
        /\ vbuf.total = pre.vtotal
        /\ ebuf.total = pre.etotal
        /\ BufferClear(cmds) = cmds
        /\ BufferClear(vbuf) = vbuf
        /\ BufferClear(ebuf) = ebuf

\* the converter is about to run in a frame that follows one that drew
C8_Witness == pc = "convert" /\ gl.scissor # <<0, 0, 0, 0>>

(* C9: the scissor rectangle clip_rect sets is the window rectangle the     *)
(* projection of ortho maps the clip rectangle to (to the pixel), the       *)
(* viewport being the display size.                                         *)
C9_SameConvention ==
    \A j \in 1..Len(calls) :
        IsScissor(calls[j]) =>
            LET w == Projected(gl.proj, cmds.data[calls[j].cmd].clip_rect, options)
            IN \A i \in 1..4 : Near(calls[j].box[i], w[i])

(* C10: at every draw call scissor testing is enabled, the scissor          *)
(* rectangle is the one of that command's clip rectangle, the bound texture *)
(* that command's texture reference, and the vertex and index content of    *)
(* the frame's conversion is in the buffer objects; every command with a    *)
(* positive element count is drawn, whatever its clip rectangle.            *)
C10_StateAtDrawCall ==
    /\ \A j \in 1..Len(DrawCalls) :
          LET c   == DrawCalls[j]
              cmd == cmds.data[c.cmd]
          IN /\ c.gl.scissor_test
             /\ c.gl.scissor = clip_rect(cmd.clip_rect, options)
             /\ c.gl.tex2d = AsGLuint(cmd.texture)
             /\ c.gl.vbo.data = <<"vertices", cmds.data>>
             /\ c.gl.ebo.data = <<"indices", cmds.data>>
             /\ vbuf.data = <<"vertices", cmds.data>>
             /\ ebuf.data = <<"indices", cmds.data>>
    /\ Len(DrawCalls) = Len(Positive(cmds.data, Processed))

\* a draw call for a clipped command with a font texture, in a frame that
\* follows another one
C10_Witness ==
    \E j \in 1..Len(DrawCalls) :
        /\ cmds.data[DrawCalls[j].cmd].clip_rect = FracRect
        /\ cmds.data[DrawCalls[j].cmd].texture # 0
        /\ Len(DrawCalls) = 2
        /\ DrawCalls[1].gl.scissor # DrawCalls[2].gl.scissor

====
